---- MODULE Spec2Model ----
(***************************************************************************)
(* A model of huayi-providers: the quantum-volume harness                  *)
(* (quantum_volume.py), the helpers of utils.py and the backend builder    *)
(* build_from_file (backend_build.py).                                     *)
(*                                                                         *)
(* Python dicts are sequences of records [k |-> key, v |-> value] with     *)
(* distinct keys, in insertion order.  Floating-point values are modelled  *)
(* as exact rationals <<numerator, denominator>> (denominator > 0) and a   *)
(* square root is kept symbolically, so that comparisons are decided       *)
(* exactly.                                                                *)
(***************************************************************************)
EXTENDS Integers, Sequences, FiniteSets, TLC

VARIABLES
    \* ---- get_heavy_outputs (quantum_volume.py) ----
    counts,          \* the argument dict
    heavy_outputs,   \* the returned list
    heavy_pc,        \* "idle" | "input" | "done"
    \* ---- check_threshold (quantum_volume.py) ----
    th_args,         \* [n_heavies, n_circuits, n_shots]
    th_sqrt_arg,     \* the argument handed to sqrt
    th_result,       \* the returned bool
    th_pc,           \* "idle" | "input" | "done"
    \* ---- utils.py ----
    fcm_args,        \* [n_qubits, radius] handed to finite_connected_map
    fcm_result,      \* the returned coupling map
    fcm_pc,          \* "idle" | "input" | "done"
    cbg_name,        \* gates_set_name handed to common_basis_gates
    cbg_result,      \* the returned list of basis gates
    cbg_printed,     \* what common_basis_gates printed
    cbg_pc,          \* "idle" | "input" | "done"
    \* ---- build_from_file (backend_build.py) ----
    gates_data,      \* the rows of the gates CSV: [gate, qubits]
    fs,              \* the files the builder touches; a JSON file is <<>> when
                     \* absent and <<content>> when written
    attrs,           \* the attributes set on self so far; n_qubits is <<>>
                     \* until it is assigned
    b_calls,         \* the steps invoked so far, in order
    b_returns,       \* what each invoked step returned
    b_faults,        \* the I/O operation that failed in each invoked step
    b_printed,       \* the lines printed so far
    b_exc,           \* the exception that left the constructor, or "none"
    b_pc,            \* "idle" | "init_file" | "props" | "conf" | "all" | "done" | "raised"
    \* ---- test_qv and test_qv_for_depths (quantum_volume.py) ----
    sw_args,         \* [depths, n_circuits, n_shots] handed to test_qv_for_depths
    sw_k,            \* number of depths whose loop iteration has finished
    sw_table,        \* results_device_df, one record per row
    sw_files,        \* [dirs, summary_writes]: what the sweep wrote itself
    sw_pc,           \* "idle" | "start" | "loop" | "in_test_qv" | "done" | "raised"
    qv,              \* the frame of the running test_qv call
    qv_pc,           \* "idle" | "loop" | "counted" | "returned"
    qv_result,       \* the value test_qv returned last
    qv_log,          \* the results dicts test_qv produced so far, in call order
    \* ---- the lists of create_conf (backend_build.py) ----
    cf_rows,         \* the rows of the gates CSV: [gate, qubits]
    cf_lists,        \* [basis_gates, coupling_map_1, coupling_map_2] as built
    cf_pc,           \* "idle" | "input" | "done"
    \* ---- the two pass verdicts in double precision (quantum_volume.py) ----
    vd_args,         \* [n_heavies, n_circuits, n_shots]: the heavy counts of a
                     \* run of test_qv added up, and its two parameters
    vd_cum_HOP,      \* cum_HOP[-1] of test_qv, a double
    vd_cum_2sigma,   \* cum_2sigma[-1] of test_qv, a double
    vd_is_pass,      \* is_pass of test_qv
    vd_numerator,    \* numerator of check_threshold, a double
    vd_threshold,    \* check_threshold(n_heavies, n_circuits, n_shots)
    vd_pc            \* "idle" | "input" | "cum_HOP" | "cum_2sigma" | "is_pass"
                     \* | "numerator" | "done": the statement executed last

heavyVars == <<counts, heavy_outputs, heavy_pc>>
thVars == <<th_args, th_sqrt_arg, th_result, th_pc>>
utilVars == <<fcm_args, fcm_result, fcm_pc, cbg_name, cbg_result, cbg_printed, cbg_pc>>
buildVars == <<gates_data, fs, attrs, b_calls, b_returns, b_faults, b_printed, b_exc, b_pc>>
qvVars == <<sw_args, sw_k, sw_table, sw_files, sw_pc, qv, qv_pc, qv_result, qv_log>>
confVars == <<cf_rows, cf_lists, cf_pc>>
verdictVars == <<vd_args, vd_cum_HOP, vd_cum_2sigma, vd_is_pass, vd_numerator, vd_threshold,
                 vd_pc>>
vars == <<heavyVars, thVars, utilVars, buildVars, qvVars, confVars, verdictVars>>

-----------------------------------------------------------------------------
(* Bounds of the model *)
MaxCount == 2        \* largest count / probability weight of one outcome
MaxCircuits == 4     \* largest n_circuits handed to check_threshold
MaxShots == 4        \* largest n_shots handed to check_threshold
MaxQubits == 4       \* largest n_qubits handed to finite_connected_map
MaxRadius == 6       \* largest radius handed to finite_connected_map

MaxGateRows == 2     \* largest number of rows of the gates CSV
MaxQubitRows == 2    \* largest number of rows of the qubits CSV

MaxDepths == 2       \* largest number of depths of one sweep
MaxQvCircuits == 2   \* largest n_circuits of a quantum-volume test
MaxQvShots == 2      \* largest n_shots of a quantum-volume test
MaxConfRows == 3     \* most rows of the gates CSV handed to the lists of create_conf
MaxVerdictCircuits == 20  \* largest n_circuits of a verdict in double precision
MaxVerdictShots == 3      \* largest n_shots of a verdict in double precision

(* The depths (numbers of qubits) a sweep may be given *)
DepthValues == {1, 2}

(* The names handed to common_basis_gates *)
GateSetNames == {"rxrxcz", "rrzrzz", "rxrycz", "RXRXCZ", ""}

(* The bit-strings a counts dict is keyed by *)
Outcomes == {"00", "01", "10", "11"}

-----------------------------------------------------------------------------
(* Generic helpers *)
Range(s) == {s[i] : i \in 1..Len(s)}

RECURSIVE SumSeq(_)
SumSeq(s) == IF s = <<>> THEN 0 ELSE s[1] + SumSeq(Tail(s))

DictKeys(d) == [i \in 1..Len(d) |-> d[i].k]

DictGet(d, key) == d[CHOOSE i \in 1..Len(d) : d[i].k = key].v

IsDict(d) == \A i, j \in 1..Len(d) : d[i].k = d[j].k => i = j

Dicts(keys, values, maxLen) ==
    {d \in UNION {[1..n -> [k : keys, v : values]] : n \in 0..maxLen} : IsDict(d)}

-----------------------------------------------------------------------------
(* Exact arithmetic standing for Python/numpy floats.  A rational is       *)
(* <<n, d>> with d > 0, kept in lowest terms.                              *)
Abs(x) == IF x < 0 THEN -x ELSE x

RECURSIVE GCD(_, _)
GCD(a, b) == IF b = 0 THEN a ELSE GCD(b, a % b)

Norm(n, d) ==
    LET g == GCD(Abs(n), Abs(d))
        sgn == IF d < 0 THEN -1 ELSE 1
    IN  IF n = 0 THEN <<0, 1>> ELSE <<sgn * (n \div g), sgn * (d \div g)>>

Rat(i) == <<i, 1>>
RSub(x, y) == Norm(x[1] * y[2] - y[1] * x[2], x[2] * y[2])
RMul(x, y) == Norm(x[1] * y[1], x[2] * y[2])
RDiv(x, y) == Norm(x[1] * y[2], x[2] * y[1])
RLess(x, y) == x[1] * y[2] < y[1] * x[2]
RLeq(x, y) == x[1] * y[2] <= y[1] * x[2]

(* The value a + b*sqrt(r) of an expression with one numpy sqrt in it *)
Surd(a, b, r) == [a |-> a, b |-> b, r |-> r]

(* surd / x *)
SurdDiv(s, x) == Surd(RDiv(s.a, x), RDiv(s.b, x), s.r)

(* surd > q, decided exactly; sqrt of a negative number is nan and every   *)
(* comparison with nan is False                                            *)
SurdGT(s, q) ==
    LET t == RSub(q, s.a)
        b2r == RMul(RMul(s.b, s.b), s.r)
        t2 == RMul(t, t)
    IN  IF RLess(s.r, Rat(0)) THEN FALSE
        ELSE IF RLeq(Rat(0), s.b) \/ s.r = Rat(0)
             THEN RLess(t, Rat(0)) \/ RLess(t2, b2r)
             ELSE RLess(t, Rat(0)) /\ RLess(b2r, t2)

-----------------------------------------------------------------------------
(* sorted(iterable, key=...): Python's sort is stable, so an element is    *)
(* placed after every earlier element whose key is not larger.             *)
RECURSIVE InsertByKey(_, _, _)
InsertByKey(s, e, d) ==
    IF s = <<>> THEN <<e>>
    ELSE IF DictGet(d, s[1]) <= DictGet(d, e)
         THEN <<s[1]>> \o InsertByKey(Tail(s), e, d)
         ELSE <<e>> \o s

RECURSIVE SortedByValue(_, _)
SortedByValue(ks, d) ==
    IF ks = <<>> THEN <<>>
    ELSE InsertByKey(SortedByValue(SubSeq(ks, 1, Len(ks) - 1), d), ks[Len(ks)], d)

(* sorted_counts[len(sorted_counts)//2:] with the slice start shifted up *)
get_heavy_outputs_ceil(c) ==
    LET sorted_counts == SortedByValue(DictKeys(c), c)
        n == Len(sorted_counts)
    IN  SubSeq(sorted_counts, ((n + 1) \div 2) + 1, n)

(* quantum_volume.py get_heavy_outputs *)
get_heavy_outputs(c) ==
    LET sorted_counts == SortedByValue(DictKeys(c), c)
        n == Len(sorted_counts)
    IN  SubSeq(sorted_counts, (n \div 2) + 1, n)

-----------------------------------------------------------------------------
(* quantum_volume.py check_threshold: the argument of sqrt *)
check_threshold_sqrt_arg(n_heavies, n_circuits, n_shots) ==
    RMul(Rat(n_heavies),
         RSub(Rat(n_shots), RDiv(Rat(n_heavies), Rat(n_circuits))))

(* check_threshold without the division of n_heavies by n_circuits *)
check_threshold_nodiv(n_heavies, n_circuits, n_shots) ==
    LET arg == RMul(Rat(n_heavies), RSub(Rat(n_shots), Rat(n_heavies)))
        numerator == Surd(Rat(n_heavies), Rat(-2), arg)
    IN  SurdGT(SurdDiv(numerator, Rat(n_circuits * n_shots)), RDiv(Rat(2), Rat(3)))

(* check_threshold adding the two-sigma term instead of subtracting it *)
check_threshold_plus(n_heavies, n_circuits, n_shots) ==
    LET numerator == Surd(Rat(n_heavies), Rat(2),
                          check_threshold_sqrt_arg(n_heavies, n_circuits, n_shots))
    IN  SurdGT(SurdDiv(numerator, Rat(n_circuits * n_shots)), RDiv(Rat(2), Rat(3)))

(* quantum_volume.py check_threshold *)
check_threshold(n_heavies, n_circuits, n_shots) ==
    LET numerator == Surd(Rat(n_heavies), Rat(-2),
                          check_threshold_sqrt_arg(n_heavies, n_circuits, n_shots))
    IN  SurdGT(SurdDiv(numerator, Rat(n_circuits * n_shots)), RDiv(Rat(2), Rat(3)))

-----------------------------------------------------------------------------
(* utils.py *)
Min(a, b) == IF a < b THEN a ELSE b
Max(a, b) == IF a > b THEN a ELSE b

(* list(range(a, b)) *)
PyRange(a, b) == [k \in 1..Max(b - a, 0) |-> a + k - 1]

(* [[i, j] for i in range(n) for j in js[i]]: js holds the list of j's of  *)
(* i = 0 .. n-1 at positions 1 .. n                                        *)
RECURSIVE Flatten(_)
Flatten(rows) == IF rows = <<>> THEN <<>> ELSE Head(rows) \o Flatten(Tail(rows))

Comprehension(js) ==
    Flatten([r \in 1..Len(js) |-> [k \in 1..Len(js[r]) |-> <<r - 1, js[r][k]>>]])

(* common_basis_gates falling back to the first gate set for unknown names *)
common_basis_gates_default(gates_set_name) ==
    IF gates_set_name = "rrzrzz"
    THEN [basis_gates |-> <<"id", "r", "rz", "rzz", "reset">>, printed |-> <<>>]
    ELSE [basis_gates |-> <<"id", "rx", "ry", "cz", "reset">>, printed |-> <<>>]

(* utils.py common_basis_gates: the returned list and the printed lines *)
common_basis_gates(gates_set_name) ==
    IF gates_set_name = "rxrxcz"
    THEN [basis_gates |-> <<"id", "rx", "ry", "cz", "reset">>, printed |-> <<>>]
    ELSE IF gates_set_name = "rrzrzz"
    THEN [basis_gates |-> <<"id", "r", "rz", "rzz", "reset">>, printed |-> <<>>]
    ELSE [basis_gates |-> <<>>, printed |-> <<"Basis set's name not found.">>]

(* finite_connected_map whose upper neighbours stop one short *)
finite_connected_map_short(n_qubits, radius) ==
    IF radius <= n_qubits
    THEN Comprehension([r \in 1..n_qubits |->
             LET i == r - 1
             IN  PyRange(Max(0, i - radius), i) \o
                 PyRange(i + 1, Min(i + radius, n_qubits))])
    ELSE Comprehension([r \in 1..n_qubits |->
             LET i == r - 1 IN PyRange(0, i) \o PyRange(i + 1, n_qubits)])

(* utils.py finite_connected_map *)
finite_connected_map(n_qubits, radius) ==
    IF radius <= n_qubits
    THEN Comprehension([r \in 1..n_qubits |->
             LET i == r - 1
             IN  PyRange(Max(0, i - radius), i) \o
                 PyRange(i + 1, Min(i + 1 + radius, n_qubits))])
    ELSE Comprehension([r \in 1..n_qubits |->
             LET i == r - 1 IN PyRange(0, i) \o PyRange(i + 1, n_qubits)])

(* fake_huayi/HuayiBackend_build.py create_conf: the fully connected map *)
fully_connected_map(n_qubits) ==
    Comprehension([r \in 1..n_qubits |->
        LET i == r - 1 IN PyRange(0, i) \o PyRange(i + 1, n_qubits)])

-----------------------------------------------------------------------------
(* backend_build.py build_from_file *)

(* The cells of the gates CSV: gate names and JSON texts of qubit lists *)
GateNames == {"id", "rx", "cz", "xy"}
ConfGateNames == GateNames \cup {"reset"}
QubitCells == {"[0]", "[0,1]", "[0, 1]", "[0,1,2]"}

(* qiskit's get_standard_gate_name_mapping(), restricted to the names used  *)
(* here, as name -> num_qubits; "xy" is not a standard gate                *)
StandardGates == [id |-> 1, rx |-> 1, cz |-> 2, reset |-> 1]

(* json.loads of a qubits cell *)
json_loads(cell) ==
    CASE cell = "[0]" -> <<0>>
      [] cell = "[0,1]" -> <<0, 1>>
      [] cell = "[0, 1]" -> <<0, 1>>
      [] cell = "[0,1,2]" -> <<0, 1, 2>>

(* pandas Series.drop_duplicates: the first occurrence of each value *)
RECURSIVE drop_duplicates(_)
drop_duplicates(s) ==
    IF s = <<>> THEN <<>>
    ELSE LET init == drop_duplicates(SubSeq(s, 1, Len(s) - 1))
             last == s[Len(s)]
         IN  IF last \in Range(init) THEN init ELSE Append(init, last)

Column(rows, field) == [i \in 1..Len(rows) |-> rows[i][field]]

(* basis_gates with "id" and "reset" appended without the membership tests *)
conf_basis_gates_unconditional(rows) ==
    drop_duplicates(Column(rows, "gate")) \o <<"id", "reset">>

(* create_conf: basis_gates *)
conf_basis_gates(rows) ==
    LET g0 == drop_duplicates(Column(rows, "gate"))
        g1 == IF "id" \notin Range(g0) THEN Append(g0, "id") ELSE g0
    IN  IF "reset" \notin Range(g1) THEN Append(g1, "reset") ELSE g1

(* create_conf: coupling_map_1 (len = 1) and coupling_map_2 (len = 2) *)
conf_coupling_map(rows, len) ==
    LET cells == drop_duplicates(Column(rows, "qubits"))
        q == [i \in 1..Len(cells) |-> json_loads(cells[i])]
    IN  SelectSeq(q, LAMBDA x : Len(x) = len)

(* create_conf: the first basis gate that is missing from the gate table,  *)
(* or "" when the lookup succeeds for all of them                          *)
conf_missing_gate(rows) ==
    LET bg == conf_basis_gates(rows)
        missing == {i \in 1..Len(bg) : bg[i] \notin DOMAIN StandardGates}
    IN  IF missing = {} THEN ""
        ELSE bg[CHOOSE i \in missing : \A j \in missing : i <= j]

(* create_conf: the GateConfig list *)
RECURSIVE conf_gates(_, _)
conf_gates(bg, rows) ==
    IF bg = <<>> THEN <<>>
    ELSE LET name == Head(bg)
             rest == conf_gates(Tail(bg), rows)
         IN  IF StandardGates[name] = 1
             THEN <<[name |-> name, coupling_map |-> conf_coupling_map(rows, 1)]>> \o rest
             ELSE IF StandardGates[name] = 2
             THEN <<[name |-> name, coupling_map |-> conf_coupling_map(rows, 2)]>> \o rest
             ELSE rest

(* create_conf: the dict dumped to conf_<backend_name>.json *)
conf_dict(n_qubits, rows) ==
    [n_qubits |-> n_qubits,
     basis_gates |-> conf_basis_gates(rows),
     gates |-> conf_gates(conf_basis_gates(rows), rows),
     coupling_map |-> conf_coupling_map(rows, 2)]

(* The I/O operations of each step, in the order the step performs them *)
InitFileOps == <<"mkdir", "open_init", "open_module", "read_root", "append_root">>
PropsOps == <<"read_qubits", "read_gates", "write_props">>
ConfOps == <<"read_gates", "write_conf">>

(* op is performed and succeeds when the step fails at fault ("none": never) *)
Before(ops, op, fault) ==
    \E i \in 1..Len(ops) :
        /\ ops[i] = op
        /\ \A j \in 1..i : ops[j] # fault

Record(step, ret, fault, lines) ==
    /\ b_calls' = Append(b_calls, step)
    /\ b_returns' = Append(b_returns, ret)
    /\ b_faults' = Append(b_faults, fault)
    /\ b_printed' = b_printed \o lines

(* an IOError handler that removes what the builder wrote so far *)
except_IOError_rollback(files) ==
    [files EXCEPT !.init_py = "absent", !.module_py = "absent",
                  !.root_import = FALSE, !.props = <<>>]

(* The files after "except IOError as e: print(..); print(e); return False" *)
(* of create_props and create_conf: the handler touches no file            *)
except_IOError(files) == files

(* build_from_file.create_init_file *)
create_init_file ==
    /\ b_pc = "init_file"
    /\ \E fault \in Range(InitFileOps) \cup {"none"} :
          \* mkdir is only called when the directory is missing, the append
          \* only when the import line is missing
          /\ fault = "mkdir" => ~fs.dir
          /\ fault = "append_root" => ~fs.root_import
          /\ fs' = [fs EXCEPT
                !.dir = fs.dir \/ Before(InitFileOps, "mkdir", fault),
                !.init_py = IF Before(InitFileOps, "open_init", fault)
                            THEN "written" ELSE @,
                !.module_py = IF Before(InitFileOps, "open_module", fault)
                              THEN "written" ELSE @,
                !.root_import = fs.root_import \/ Before(InitFileOps, "append_root", fault)]
          /\ attrs' = [attrs EXCEPT
                !.backend_names = Before(InitFileOps, "open_module", fault)]
          /\ IF fault = "none"
             THEN Record("create_init_file", TRUE, fault, <<>>)
             ELSE Record("create_init_file", FALSE, fault,
                         <<"Failed to create initializing scripts", "IOError">>)
    /\ b_pc' = "props"
    /\ UNCHANGED <<gates_data, b_exc>>

(* build_from_file.create_props *)
create_props ==
    /\ b_pc = "props"
    /\ \E fault \in Range(PropsOps) \cup {"none"}, qubit_rows \in 1..MaxQubitRows :
          \* the props file cannot be opened in a directory that does not exist
          /\ ~fs.dir => fault # "none"
          /\ attrs' = [attrs EXCEPT
                !.n_qubits = IF Before(PropsOps, "read_qubits", fault)
                             THEN <<qubit_rows>> ELSE @,
                !.props = Before(PropsOps, "write_props", fault)]
          /\ fs' = IF fault = "none"
                   THEN [fs EXCEPT !.props = <<[n_qubits |-> qubit_rows,
                                                n_gates |-> Len(gates_data)]>>]
                   ELSE except_IOError(fs)
          /\ IF fault = "none"
             THEN Record("create_props", TRUE, fault, <<"Successfully created props">>)
             ELSE Record("create_props", FALSE, fault,
                         <<"Failed to create props", "IOError">>)
    /\ b_pc' = "conf"
    /\ UNCHANGED <<gates_data, b_exc>>

(* build_from_file.create_conf *)
create_conf ==
    /\ b_pc = "conf"
    /\ IF attrs.n_qubits = <<>>
       THEN \* n_qubits = self.n_qubits raises AttributeError, which the
            \* handler for IOError does not catch
            /\ b_exc' = "AttributeError"
            /\ b_pc' = "raised"
            /\ b_calls' = Append(b_calls, "create_conf")
            /\ UNCHANGED <<fs, attrs, b_returns, b_faults, b_printed>>
       ELSE \E fault \in Range(ConfOps) \cup {"none"} :
            /\ ~fs.dir => fault # "none"
            /\ IF fault = "read_gates"
               THEN /\ Record("create_conf", FALSE, fault,
                              <<"Failed to create props", "IOError">>)
                    /\ fs' = except_IOError(fs)
                    /\ b_pc' = "all"
                    /\ UNCHANGED <<attrs, b_exc>>
               ELSE IF conf_missing_gate(gates_data) # ""
               THEN \* the handler for KeyError formats its message with
                    \* "... library.}": str.format raises ValueError there
                    /\ b_exc' = "ValueError"
                    /\ b_pc' = "raised"
                    /\ b_calls' = Append(b_calls, "create_conf")
                    /\ UNCHANGED <<fs, attrs, b_returns, b_faults, b_printed>>
               ELSE IF fault = "write_conf"
               THEN /\ Record("create_conf", FALSE, fault,
                              <<"Failed to create props", "IOError">>)
                    /\ fs' = except_IOError(fs)
                    /\ b_pc' = "all"
                    /\ UNCHANGED <<attrs, b_exc>>
               ELSE /\ fs' = [fs EXCEPT !.conf = <<conf_dict(attrs.n_qubits[1], gates_data)>>]
                    /\ attrs' = [attrs EXCEPT !.conf = TRUE]
                    /\ Record("create_conf", TRUE, fault, <<"Successfully created conf">>)
                    /\ b_pc' = "all"
                    /\ UNCHANGED b_exc
    /\ UNCHANGED gates_data

(* any((...)) in the place of all((...)) *)
any_steps(returns) == \E i \in 1..Len(returns) : returns[i]

(* build_from_file.__init__: all((create_init_file(..), create_props(..),  *)
(* create_conf(..))) over the tuple of the three return values             *)
all_steps(returns) == \A i \in 1..Len(returns) : returns[i]

(* build_from_file.__init__: if all((...)): print the import hint *)
build_all ==
    /\ b_pc = "all"
    /\ b_printed' = IF all_steps(b_returns)
                    THEN b_printed \o <<"New backends created", "from huayi_providers import">>
                    ELSE b_printed
    /\ b_pc' = "done"
    /\ UNCHANGED <<gates_data, fs, attrs, b_calls, b_returns, b_faults, b_exc>>

-----------------------------------------------------------------------------
(* quantum_volume.py test_qv and test_qv_for_depths *)

(* The bit-strings of n_qubits qubits *)
OutcomesOf(n_qubits) == IF n_qubits = 1 THEN {"0", "1"} ELSE Outcomes

(* rational - surd *)
SurdRSub(x, s) == Surd(RSub(x, s.a), RSub(Rat(0), s.b), s.r)

(* The dicts job.result().get_counts() may return: the observed outcomes   *)
(* in any order, each with a positive count, the counts adding up to shots *)
RealCounts ==
    [n_qubits \in DepthValues, shots \in 1..MaxQvShots |->
        {d \in Dicts(OutcomesOf(n_qubits), 1..shots, shots) :
            SumSeq([i \in 1..Len(d) |-> d[i].v]) = shots}]

(* The bit-strings of n_qubits qubits in the order of their index *)
OutcomeOrder(n_qubits) == IF n_qubits = 1 THEN <<"0", "1">> ELSE <<"00", "01", "10", "11">>

(* The dicts probabilities_dict() may return: the outcomes of non-zero     *)
(* probability in index order, the probabilities as integer weights        *)
IdealProbabilities ==
    [n_qubits \in DepthValues |->
        LET order == OutcomeOrder(n_qubits)
        IN  {SelectSeq([i \in 1..Len(order) |-> [k |-> order[i], v |-> w[i]]],
                       LAMBDA e : e.v > 0) :
                w \in [1..Len(order) -> 0..MaxCount]}]

(* The lists get_heavy_outputs(get_ideal_probabilities(circuit)) may be *)
IdealHeavyOutputs ==
    [n_qubits \in DepthValues |->
        {get_heavy_outputs(d) : d \in IdealProbabilities[n_qubits]}]

(* n_heavies[i] taking the count of every measured output *)
count_heavies_all(real_counts, ideal_heavy_outputs) ==
    SumSeq([k \in 1..Len(real_counts) |-> real_counts[k].v])

(* test_qv: the loop over real_counts.items() adding up n_heavies[i] *)
RECURSIVE count_heavies(_, _)
count_heavies(real_counts, ideal_heavy_outputs) ==
    IF real_counts = <<>> THEN 0
    ELSE (IF Head(real_counts).k \in Range(ideal_heavy_outputs)
          THEN Head(real_counts).v ELSE 0)
         + count_heavies(Tail(real_counts), ideal_heavy_outputs)

(* test_qv: circ_result["HOP"] = n_heavies[i] / n_shots *)
circ_result_HOP(n_heavy, n_shots) == RDiv(Rat(n_heavy), Rat(n_shots))

(* cum_HOP[i] summing n_heavies[0:i] instead of n_heavies[0:i+1]; i counts *)
(* from 1 here                                                             *)
cum_HOP_entry_excl(n_heavies, i, n_shots) ==
    RMul(RDiv(RDiv(Rat(SumSeq(SubSeq(n_heavies, 1, i - 1))), Rat(n_shots)), Rat(i)),
         Rat(100))

(* test_qv: cum_HOP[i] = sum(n_heavies[0:i+1]) / n_shots / (i+1) * 100;    *)
(* i counts from 1 here                                                    *)
cum_HOP_entry(n_heavies, i, n_shots) ==
    RMul(RDiv(RDiv(Rat(SumSeq(SubSeq(n_heavies, 1, i))), Rat(n_shots)), Rat(i)),
         Rat(100))

(* test_qv: cum_2sigma[i] = 2 * sqrt(cum_HOP[i] * (100.0 - cum_HOP[i]) / (i+1)) *)
cum_2sigma_entry(hop, i) ==
    Surd(Rat(0), Rat(2), RDiv(RMul(hop, RSub(Rat(100), hop)), Rat(i)))

(* test_qv: is_pass = bool((cum_HOP[-1] - cum_2sigma[-1]) > (100*2/3)) *)
is_pass(hop, sigma2) ==
    SurdGT(SurdRSub(hop, sigma2), RDiv(Rat(100 * 2), Rat(3)))

RECURSIVE Pow2(_)
Pow2(n) == IF n = 0 THEN 1 ELSE 2 * Pow2(n - 1)

(* test_qv up to its loop: the lists of n_circuits zeros *)
qv_frame(n_qubits, n_circuits, n_shots) ==
    [n_qubits |-> n_qubits, n_circuits |-> n_circuits, n_shots |-> n_shots,
     i |-> 0,
     n_heavies |-> [c \in 1..n_circuits |-> 0],
     cum_HOP |-> [c \in 1..n_circuits |-> Rat(0)],
     cum_2sigma |-> [c \in 1..n_circuits |-> Surd(Rat(0), Rat(0), Rat(0))],
     ideal_heavy_outputs |-> <<>>,
     real_counts |-> <<>>,
     circ_HOP |-> <<>>,
     circuit_files |-> 0,
     summary_csv |-> FALSE]

(* test_qv, first half of one iteration of the loop over qv_circuits: the   *)
(* circuit is simulated and run on the device                              *)
qv_run_circuit ==
    /\ qv_pc = "loop"
    /\ qv.i < qv.n_circuits
    /\ \E heavy \in IdealHeavyOutputs[qv.n_qubits],
          real \in RealCounts[qv.n_qubits, qv.n_shots] :
          qv' = [qv EXCEPT !.ideal_heavy_outputs = heavy, !.real_counts = real]
    /\ qv_pc' = "counted"
    /\ UNCHANGED <<sw_args, sw_k, sw_table, sw_files, sw_pc, qv_result, qv_log>>

(* test_qv, second half of the iteration: the heavy outputs are counted,   *)
(* circuit_<i>.json is written and the cumulants of circuit i are set.     *)
(* ideal_heavy_outputs and real_counts are dead after it and are reset.    *)
qv_record_circuit ==
    /\ qv_pc = "counted"
    /\ LET i == qv.i + 1
           n_heavies == [qv.n_heavies EXCEPT
                            ![i] = @ + count_heavies(qv.real_counts, qv.ideal_heavy_outputs)]
           hop == cum_HOP_entry(n_heavies, i, qv.n_shots)
       IN  qv' = [qv EXCEPT
                     !.i = i,
                     !.n_heavies = n_heavies,
                     !.ideal_heavy_outputs = <<>>,
                     !.real_counts = <<>>,
                     !.circ_HOP = <<circ_result_HOP(n_heavies[i], qv.n_shots)>>,
                     !.circuit_files = @ + 1,
                     !.cum_HOP = [@ EXCEPT ![i] = hop],
                     !.cum_2sigma = [@ EXCEPT ![i] = cum_2sigma_entry(hop, i)]]
    /\ qv_pc' = "loop"
    /\ UNCHANGED <<sw_args, sw_k, sw_table, sw_files, sw_pc, qv_result, qv_log>>

(* test_qv after its loop: summary.csv, the verdict and the returned tuple *)
qv_return ==
    /\ qv_pc = "loop"
    /\ qv.i = qv.n_circuits
    /\ LET n == qv.n_circuits
           results == [backend |-> "device",
                       n_qubits |-> qv.n_qubits,
                       QV |-> Pow2(qv.n_qubits),
                       HOP |-> qv.cum_HOP[n],
                       sigma2 |-> qv.cum_2sigma[n],
                       success |-> is_pass(qv.cum_HOP[n], qv.cum_2sigma[n]),
                       n_circuits |-> qv.n_circuits,
                       n_shots |-> qv.n_shots,
                       cum_HOP |-> qv.cum_HOP,
                       cum_2sigma |-> qv.cum_2sigma]
       IN  /\ qv_result' = [type |-> "tuple",
                            items |-> <<results, [c \in 1..n |-> c], [c \in 1..n |-> c]>>]
           /\ qv_log' = Append(qv_log, results)
    /\ qv' = [qv EXCEPT !.summary_csv = TRUE]
    /\ qv_pc' = "returned"
    /\ UNCHANGED <<sw_args, sw_k, sw_table, sw_files, sw_pc>>

(* test_qv_for_depths: the directories and the empty results_device_df *)
sweep_start ==
    /\ sw_pc = "start"
    /\ sw_files' = [sw_files EXCEPT !.dirs = TRUE]
    /\ sw_table' = <<>>
    /\ sw_pc' = "loop"
    /\ UNCHANGED <<sw_args, sw_k, qv, qv_pc, qv_result, qv_log>>

(* test_qv_for_depths: the loop body up to the call of test_qv *)
sweep_call_test_qv ==
    /\ sw_pc = "loop"
    /\ sw_k < Len(sw_args.depths)
    /\ qv' = qv_frame(sw_args.depths[sw_k + 1], sw_args.n_circuits, sw_args.n_shots)
    /\ qv_pc' = "loop"
    /\ sw_pc' = "in_test_qv"
    /\ UNCHANGED <<sw_args, sw_k, sw_table, sw_files, qv_result, qv_log>>

(* pd.DataFrame(data, columns=[...], index=[0]) builds the one-row frame   *)
(* of a dict of scalars; a tuple of a dict and two lists of circuits is    *)
(* not a dict and makes no such frame: the constructor raises              *)
DataFrame(data) ==
    IF data.type = "dict"
    THEN [ok |-> TRUE,
          rows |-> <<[backend |-> data.items.backend, n_qubits |-> data.items.n_qubits,
                      QV |-> data.items.QV, HOP |-> data.items.HOP,
                      sigma2 |-> data.items.sigma2, success |-> data.items.success,
                      n_circuits |-> data.items.n_circuits,
                      n_shots |-> data.items.n_shots]>>]
    ELSE [ok |-> FALSE, rows |-> <<>>]

(* test_qv_for_depths: the loop body after test_qv returned *)
sweep_append ==
    /\ sw_pc = "in_test_qv"
    /\ qv_pc = "returned"
    /\ LET frame == DataFrame(qv_result)
       IN  IF frame.ok
           THEN /\ sw_table' = sw_table \o frame.rows
                /\ sw_k' = sw_k + 1
                /\ sw_pc' = "loop"
           ELSE /\ sw_pc' = "raised"
                /\ UNCHANGED <<sw_table, sw_k>>
    /\ qv_pc' = "idle"
    /\ UNCHANGED <<sw_args, sw_files, qv, qv_result, qv_log>>

(* test_qv_for_depths: the device summary.csv after the loop *)
sweep_summary ==
    /\ sw_pc = "loop"
    /\ sw_k = Len(sw_args.depths)
    /\ sw_files' = [sw_files EXCEPT !.summary_writes = @ + 1]
    /\ sw_pc' = "done"
    /\ UNCHANGED <<sw_args, sw_k, sw_table, qv, qv_pc, qv_result, qv_log>>

-----------------------------------------------------------------------------
(* quantum_volume.py: the arithmetic of check_threshold and of the verdict *)
(* of test_qv as Python computes it. A Python float is an IEEE 754 double: *)
(* 53 significant bits, and every +, -, *, / and sqrt returns the double   *)
(* nearest to the exact result, ties to the even significand. Significands *)
(* do not fit TLC's integers, so a natural number is a sequence of limbs,  *)
(* least significant first, without leading zero limbs.                    *)
LimbBits == 15
PowersOfTwo == <<1, 2, 4, 8, 16, 32, 64, 128, 256, 512, 1024, 2048, 4096, 8192,
                 16384, 32768>>
TwoTo(k) == PowersOfTwo[k + 1]
Base == TwoTo(LimbBits)
MantissaBits == 53

(* limb i of x, zero beyond its ends *)
BnLimb(x, i) == IF i >= 1 /\ i <= Len(x) THEN x[i] ELSE 0

(* x without its leading zero limbs *)
BnTrim(x) ==
    LET nz == {i \in 1..Len(x) : x[i] # 0}
    IN  IF nz = {} THEN <<>>
        ELSE SubSeq(x, 1, CHOOSE i \in nz : \A j \in nz : j <= i)

(* an int n >= 0 *)
BnFromInt(n) == BnTrim(<<n % Base, (n \div Base) % Base, n \div (Base * Base)>>)

(* x + y: position i receives a carry when a lower position overflows and  *)
(* every position between the two is full                                  *)
BnAdd(x, y) ==
    LET n == Max(Len(x), Len(y)) + 1
        sum == [i \in 1..n |-> BnLimb(x, i) + BnLimb(y, i)]
        carry == [i \in 1..n |->
                    IF \E j \in 1..(i - 1) :
                          /\ sum[j] >= Base
                          /\ \A k \in (j + 1)..(i - 1) : sum[k] = Base - 1
                    THEN 1 ELSE 0]
    IN  BnTrim([i \in 1..n |-> (sum[i] + carry[i]) % Base])

(* x - y for x >= y: position i lends when a lower position of x is        *)
(* smaller than that of y and every position between the two is equal      *)
BnSub(x, y) ==
    LET borrow == [i \in 1..Len(x) |->
                     IF \E j \in 1..(i - 1) :
                           /\ x[j] < BnLimb(y, j)
                           /\ \A k \in (j + 1)..(i - 1) : x[k] = BnLimb(y, k)
                     THEN 1 ELSE 0]
    IN  BnTrim([i \in 1..Len(x) |-> (x[i] - BnLimb(y, i) - borrow[i] + Base) % Base])

(* -1, 0 or 1 as x is less than, equal to or greater than y *)
BnCmp(x, y) ==
    LET diff == {i \in 1..Len(x) : x[i] # BnLimb(y, i)}
        top == CHOOSE i \in diff : \A j \in diff : j <= i
    IN  IF Len(x) # Len(y) THEN (IF Len(x) < Len(y) THEN -1 ELSE 1)
        ELSE IF diff = {} THEN 0
        ELSE IF x[top] < y[top] THEN -1 ELSE 1

(* x * d for a limb d: the low halves of the limb products plus the high   *)
(* halves one limb up                                                      *)
BnMulSmall(x, d) ==
    IF x = <<>> THEN <<>>
    ELSE BnAdd([i \in 1..Len(x) |-> (x[i] * d) % Base],
               <<0>> \o [i \in 1..Len(x) |-> (x[i] * d) \div Base])

(* x * y: column k adds the products x[i] * y[j] with i + j = k + 1, low   *)
(* and high halves apart, so that no sum leaves TLC's integers             *)
BnMul(x, y) ==
    IF x = <<>> \/ y = <<>> THEN <<>>
    ELSE LET n == Len(x) + Len(y)
             lo == [k \in 1..n |->
                      SumSeq([i \in 1..Len(x) |-> (x[i] * BnLimb(y, k + 1 - i)) % Base])]
             hi == [k \in 1..n |->
                      SumSeq([i \in 1..Len(x) |-> (x[i] * BnLimb(y, k + 1 - i)) \div Base])]
             col == [k \in 1..n |-> lo[k] + (IF k = 1 THEN 0 ELSE hi[k - 1])]
         IN  BnAdd([k \in 1..n |-> col[k] % Base],
                   <<0>> \o [k \in 1..n |-> col[k] \div Base])

(* x * 2^k *)
BnShl(x, k) ==
    LET limbs == k \div LimbBits
        bits == k % LimbBits
    IN  BnTrim([i \in 1..(Len(x) + limbs + 1) |->
                   ((BnLimb(x, i - limbs) * TwoTo(bits)) % Base)
                   + (BnLimb(x, i - limbs - 1) \div TwoTo(LimbBits - bits))])

(* floor(x / 2^k) *)
BnShr(x, k) ==
    LET limbs == k \div LimbBits
        bits == k % LimbBits
    IN  IF Len(x) <= limbs THEN <<>>
        ELSE BnTrim([i \in 1..(Len(x) - limbs) |->
                       (BnLimb(x, i + limbs) \div TwoTo(bits))
                       + ((BnLimb(x, i + limbs + 1) % TwoTo(bits)) * TwoTo(LimbBits - bits))])

(* the number of bits of a limb *)
BitLen(n) == Cardinality({k \in 0..LimbBits : TwoTo(k) <= n})

BnBitLen(x) == IF x = <<>> THEN 0 ELSE LimbBits * (Len(x) - 1) + BitLen(x[Len(x)])

BnIsOdd(x) == x # <<>> /\ x[1] % 2 = 1

(* One digit of long division: the largest t < Base with d * t <= cur, for *)
(* cur < d * Base and a divisor whose top limb is at least Base / 2. The   *)
(* quotient of the two top limbs of cur by the top limb of d is then at    *)
(* most 2 too large (Knuth, TAOCP 4.3.1, theorem B)                        *)
BnQuoDigit(cur, d) ==
    LET m == Len(d)
        est == Min(Base - 1, (BnLimb(cur, m + 1) * Base + BnLimb(cur, m)) \div d[m])
    IN  IF BnCmp(BnMulSmall(d, est), cur) <= 0 THEN est
        ELSE IF BnCmp(BnMulSmall(d, est - 1), cur) <= 0 THEN est - 1
        ELSE est - 2

(* long division by d, limb i of n next: q holds the digits found so far   *)
(* and r the remainder of the limbs above i                                *)
RECURSIVE BnDivModAt(_, _, _, _, _)
BnDivModAt(n, d, i, q, r) ==
    IF i < 1 THEN <<BnTrim(q), r>>
    ELSE LET cur == BnTrim(<<n[i]>> \o r)
             t == BnQuoDigit(cur, d)
         IN  IF t = 0
             THEN BnDivModAt(n, d, i - 1, <<0>> \o q, cur)
             ELSE BnDivModAt(n, d, i - 1, <<t>> \o q, BnSub(cur, BnMulSmall(d, t)))

(* <<floor(n / d), n mod d>> for d # 0: both are scaled by the power of    *)
(* two that brings the top limb of d to Base / 2 or more, and the top      *)
(* Len(d) - 1 limbs of n start the remainder                               *)
BnDivMod(n, d) ==
    LET shift == LimbBits * Len(d) - BnBitLen(d)
        nn == BnShl(n, shift)
        dn == BnShl(d, shift)
        first == Len(nn) - Len(dn) + 1
        qr == IF first < 1 THEN <<(<<>>), nn>>
              ELSE BnDivModAt(nn, dn, first, <<>>, SubSeq(nn, first + 1, Len(nn)))
    IN  <<qr[1], BnShr(qr[2], shift)>>

(* floor(sqrt(v)) for an int 0 <= v < Base * Base: the multiples of 2^7    *)
(* whose square is at most v are counted, then the steps of 1 above them   *)
SqrtSmall(v) ==
    LET coarse == TwoTo(7) * Cardinality({k \in 1..(TwoTo(8) - 1) :
                                             (TwoTo(7) * k) * (TwoTo(7) * k) <= v})
    IN  coarse + Cardinality({k \in 1..(TwoTo(7) - 1) : (coarse + k) * (coarse + k) <= v})

(* Newton's iteration downwards from x >= sqrt(n): the next value          *)
(* floor((x + floor(n / x)) / 2) is smaller than x exactly when            *)
(* floor(n / x) < x, and x = floor(sqrt(n)) when it is not                 *)
RECURSIVE BnSqrtFrom(_, _)
BnSqrtFrom(n, x) ==
    LET q == BnDivMod(n, x)[1]
    IN  IF BnCmp(q, x) >= 0 THEN x ELSE BnSqrtFrom(n, BnShr(BnAdd(x, q), 1))

(* floor(sqrt(n)): the iteration starts just above the square root of the  *)
(* top two limbs of n, taken at an even bit position                       *)
BnSqrt(n) ==
    LET L == BnBitLen(n)
        shift == IF L <= 2 * LimbBits THEN 0 ELSE 2 * ((L - 2 * LimbBits + 1) \div 2)
        top == BnShr(n, shift)
        start == SqrtSmall(BnLimb(top, 2) * Base + BnLimb(top, 1)) + 1
    IN  IF n = <<>> THEN <<>>
        ELSE BnSqrtFrom(n, BnShl(BnFromInt(start), shift \div 2))

(* A double is [s, m, e] for (-1)^s * m * 2^e with m of exactly            *)
(* MantissaBits bits, or m = <<>> for zero. The values of this code stay   *)
(* far from the exponent limits, so there are no subnormals or infinities. *)
FZero == [s |-> 0, m |-> <<>>, e |-> 0]

(* The double nearest to (-1)^s * M * 2^E, ties to even; inexact says that *)
(* the exact value lies strictly between M * 2^E and (M + 1) * 2^E         *)
FRound(s, M, E, inexact) ==
    IF M = <<>> THEN FZero
    ELSE LET L == BnBitLen(M)
         IN  IF L <= MantissaBits
             THEN [s |-> s, m |-> BnShl(M, MantissaBits - L), e |-> E - (MantissaBits - L)]
             ELSE LET k == L - MantissaBits
                      q == BnShr(M, k)
                      rem == BnSub(M, BnShl(q, k))
                      c == BnCmp(rem, BnShl(<<1>>, k - 1))
                      up == c = 1 \/ (c = 0 /\ (inexact \/ BnIsOdd(q)))
                      q2 == IF up THEN BnAdd(q, <<1>>) ELSE q
                  IN  IF BnBitLen(q2) > MantissaBits
                      THEN [s |-> s, m |-> BnShr(q2, 1), e |-> E + k + 1]
                      ELSE [s |-> s, m |-> q2, e |-> E + k]

(* float(n) of an int n *)
FFromInt(n) == FRound(IF n < 0 THEN 1 ELSE 0, BnFromInt(Abs(n)), 0, FALSE)

FNeg(a) == IF a.m = <<>> THEN a ELSE [a EXCEPT !.s = 1 - @]

(* a * b *)
FMul(a, b) ==
    IF a.m = <<>> \/ b.m = <<>> THEN FZero
    ELSE FRound((a.s + b.s) % 2, BnMul(a.m, b.m), a.e + b.e, FALSE)

(* a + b *)
FAdd(a, b) ==
    IF a.m = <<>> THEN b
    ELSE IF b.m = <<>> THEN a
    ELSE LET e == Min(a.e, b.e)
             A == BnShl(a.m, a.e - e)
             B == BnShl(b.m, b.e - e)
             c == BnCmp(A, B)
         IN  IF a.s = b.s THEN FRound(a.s, BnAdd(A, B), e, FALSE)
             ELSE IF c = 0 THEN FZero
             ELSE IF c = 1 THEN FRound(a.s, BnSub(A, B), e, FALSE)
             ELSE FRound(b.s, BnSub(B, A), e, FALSE)

(* a - b *)
FSub(a, b) == FAdd(a, FNeg(b))

(* a / b for b # 0: the quotient of the significands to MantissaBits + 3   *)
(* bits and more, the remainder telling whether it is exact                *)
FDiv(a, b) ==
    IF a.m = <<>> THEN FZero
    ELSE LET k == MantissaBits + 3
             qr == BnDivMod(BnShl(a.m, k), b.m)
         IN  FRound((a.s + b.s) % 2, qr[1], a.e - b.e - k, qr[2] # <<>>)

(* sqrt(a) for a >= 0: the significand is scaled to an even exponent *)
FSqrt(a) ==
    IF a.m = <<>> THEN FZero
    ELSE LET k == IF a.e % 2 = 0 THEN MantissaBits + 5 ELSE MantissaBits + 4
             n == BnShl(a.m, k)
             r == BnSqrt(n)
         IN  FRound(0, r, (a.e - k) \div 2, BnMul(r, r) # n)

(* a > b *)
FGT(a, b) == LET d == FSub(a, b) IN d.m # <<>> /\ d.s = 0

(* check_threshold: the literal 2/3 *)
two_thirds_f64 == FDiv(FFromInt(2), FFromInt(3))

(* test_qv: the literal 100*2/3 *)
pass_level_f64 == FDiv(FFromInt(100 * 2), FFromInt(3))

(* check_threshold in double precision: numerator = n_heavies -            *)
(* 2*sqrt(n_heavies*(n_shots-(n_heavies/n_circuits)))                      *)
numerator_f64(n_heavies, n_circuits, n_shots) ==
    LET per_circuit == FDiv(FFromInt(n_heavies), FFromInt(n_circuits))
        arg == FMul(FFromInt(n_heavies), FSub(FFromInt(n_shots), per_circuit))
    IN  FSub(FFromInt(n_heavies), FMul(FFromInt(2), FSqrt(arg)))

(* check_threshold in double precision: bool(numerator/(n_circuits*n_shots) *)
(* > 2/3)                                                                  *)
check_threshold_f64(numerator, n_circuits, n_shots) ==
    FGT(FDiv(numerator, FFromInt(n_circuits * n_shots)), two_thirds_f64)

(* test_qv: cum_HOP[i] in double precision, total being                    *)
(* sum(n_heavies[0:i+1]), an int; i counts from 1 here                     *)
cum_HOP_f64(total, i, n_shots) ==
    FMul(FDiv(FDiv(FFromInt(total), FFromInt(n_shots)), FFromInt(i)), FFromInt(100))

(* test_qv: cum_2sigma[i] in double precision *)
cum_2sigma_f64(hop, i) ==
    FMul(FFromInt(2), FSqrt(FDiv(FMul(hop, FSub(FFromInt(100), hop)), FFromInt(i))))

(* test_qv: is_pass in double precision *)
is_pass_f64(hop, sigma2) == FGT(FSub(hop, sigma2), pass_level_f64)

-----------------------------------------------------------------------------
(* Specification of get_heavy_outputs on bounded inputs *)
HeavyIdle ==
    /\ counts = <<>>
    /\ heavy_outputs = <<>>
    /\ heavy_pc = "idle"

ThIdle ==
    /\ th_args = [n_heavies |-> 0, n_circuits |-> 1, n_shots |-> 1]
    /\ th_sqrt_arg = <<0, 1>>
    /\ th_result = FALSE
    /\ th_pc = "idle"

UtilIdle ==
    /\ fcm_args = [n_qubits |-> 0, radius |-> 0]
    /\ fcm_result = <<>>
    /\ fcm_pc = "idle"
    /\ cbg_name = ""
    /\ cbg_result = <<>>
    /\ cbg_printed = <<>>
    /\ cbg_pc = "idle"

BuildIdle ==
    /\ gates_data = <<>>
    /\ fs = [dir |-> FALSE, init_py |-> "absent", module_py |-> "absent",
             root_import |-> FALSE, props |-> <<>>, conf |-> <<>>]
    /\ attrs = [backend_names |-> FALSE, n_qubits |-> <<>>, props |-> FALSE, conf |-> FALSE]
    /\ b_calls = <<>>
    /\ b_returns = <<>>
    /\ b_faults = <<>>
    /\ b_printed = <<>>
    /\ b_exc = "none"
    /\ b_pc = "idle"

ConfIdle ==
    /\ cf_rows = <<>>
    /\ cf_lists = [basis_gates |-> <<>>, coupling_map_1 |-> <<>>, coupling_map_2 |-> <<>>]
    /\ cf_pc = "idle"

VerdictIdle ==
    /\ vd_args = [n_heavies |-> 0, n_circuits |-> 1, n_shots |-> 1]
    /\ vd_cum_HOP = FZero
    /\ vd_cum_2sigma = FZero
    /\ vd_is_pass = FALSE
    /\ vd_numerator = FZero
    /\ vd_threshold = FALSE
    /\ vd_pc = "idle"

QvIdle ==
    /\ sw_args = [depths |-> <<>>, n_circuits |-> 1, n_shots |-> 1]
    /\ sw_k = 0
    /\ sw_table = <<>>
    /\ sw_files = [dirs |-> FALSE, summary_writes |-> 0]
    /\ sw_pc = "idle"
    /\ qv = qv_frame(1, 1, 1)
    /\ qv_pc = "idle"
    /\ qv_result = [type |-> "none", items |-> <<>>]
    /\ qv_log = <<>>

InitHeavy ==
    /\ counts \in Dicts(Outcomes, 0..MaxCount, Cardinality(Outcomes))
    /\ heavy_outputs = <<>>
    /\ heavy_pc = "input"
    /\ ThIdle
    /\ UtilIdle
    /\ BuildIdle
    /\ QvIdle
    /\ ConfIdle
    /\ VerdictIdle

CallGetHeavyOutputs ==
    /\ heavy_pc = "input"
    /\ heavy_outputs' = get_heavy_outputs(counts)
    /\ heavy_pc' = "done"
    /\ UNCHANGED <<counts, thVars, utilVars, buildVars, qvVars, confVars, verdictVars>>

NextHeavy == CallGetHeavyOutputs

SpecHeavy == InitHeavy /\ [][NextHeavy]_vars

-----------------------------------------------------------------------------
(* Specification of check_threshold on bounded inputs *)
InitThreshold ==
    /\ \E c \in 1..MaxCircuits, s \in 1..MaxShots :
         \E h \in 0..(c * s) :
            th_args = [n_heavies |-> h, n_circuits |-> c, n_shots |-> s]
    /\ th_sqrt_arg = <<0, 1>>
    /\ th_result = FALSE
    /\ th_pc = "input"
    /\ HeavyIdle
    /\ UtilIdle
    /\ BuildIdle
    /\ QvIdle
    /\ ConfIdle
    /\ VerdictIdle

CallCheckThreshold ==
    /\ th_pc = "input"
    /\ th_sqrt_arg' = check_threshold_sqrt_arg(th_args.n_heavies, th_args.n_circuits,
                                               th_args.n_shots)
    /\ th_result' = check_threshold(th_args.n_heavies, th_args.n_circuits, th_args.n_shots)
    /\ th_pc' = "done"
    /\ UNCHANGED <<th_args, heavyVars, utilVars, buildVars, qvVars, confVars, verdictVars>>

NextThreshold == CallCheckThreshold

SpecThreshold == InitThreshold /\ [][NextThreshold]_vars

-----------------------------------------------------------------------------
(* Specification of the helpers of utils.py on bounded inputs *)
InitUtils ==
    /\ fcm_args \in [n_qubits : 0..MaxQubits, radius : 0..MaxRadius]
    /\ fcm_result = <<>>
    /\ fcm_pc = "input"
    /\ cbg_name \in GateSetNames
    /\ cbg_result = <<>>
    /\ cbg_printed = <<>>
    /\ cbg_pc = "input"
    /\ HeavyIdle
    /\ ThIdle
    /\ BuildIdle
    /\ QvIdle
    /\ ConfIdle
    /\ VerdictIdle

CallFiniteConnectedMap ==
    /\ fcm_pc = "input"
    /\ fcm_result' = finite_connected_map(fcm_args.n_qubits, fcm_args.radius)
    /\ fcm_pc' = "done"
    /\ UNCHANGED <<fcm_args, cbg_name, cbg_result, cbg_printed, cbg_pc, heavyVars, thVars, buildVars, qvVars, confVars, verdictVars>>

CallCommonBasisGates ==
    /\ cbg_pc = "input"
    /\ cbg_result' = common_basis_gates(cbg_name).basis_gates
    /\ cbg_printed' = common_basis_gates(cbg_name).printed
    /\ cbg_pc' = "done"
    /\ UNCHANGED <<cbg_name, fcm_args, fcm_result, fcm_pc, heavyVars, thVars, buildVars, qvVars, confVars, verdictVars>>

NextUtils == CallFiniteConnectedMap \/ CallCommonBasisGates

SpecUtils == InitUtils /\ [][NextUtils]_vars

-----------------------------------------------------------------------------
(* Specification of the constructor of build_from_file: the gates CSV and  *)
(* the files found on disk are inputs, every I/O operation may fail        *)
InitBuild ==
    /\ gates_data \in UNION {[1..n -> [gate : GateNames, qubits : QubitCells]] :
                                n \in 0..MaxGateRows}
    \* either a first run, or a run that finds the directory, the two
    \* modules and the import line of an earlier run
    /\ \E rerun \in BOOLEAN :
          fs = [dir |-> rerun,
                init_py |-> IF rerun THEN "old" ELSE "absent",
                module_py |-> IF rerun THEN "old" ELSE "absent",
                root_import |-> rerun,
                props |-> <<>>, conf |-> <<>>]
    /\ attrs = [backend_names |-> FALSE, n_qubits |-> <<>>, props |-> FALSE, conf |-> FALSE]
    /\ b_calls = <<>>
    /\ b_returns = <<>>
    /\ b_faults = <<>>
    /\ b_printed = <<>>
    /\ b_exc = "none"
    /\ b_pc = "init_file"
    /\ HeavyIdle
    /\ ThIdle
    /\ UtilIdle
    /\ QvIdle
    /\ ConfIdle
    /\ VerdictIdle

NextBuild ==
    \/ create_init_file /\ UNCHANGED <<heavyVars, thVars, utilVars, qvVars, confVars, verdictVars>>
    \/ create_props /\ UNCHANGED <<heavyVars, thVars, utilVars, qvVars, confVars, verdictVars>>
    \/ create_conf /\ UNCHANGED <<heavyVars, thVars, utilVars, qvVars, confVars, verdictVars>>
    \/ build_all /\ UNCHANGED <<heavyVars, thVars, utilVars, qvVars, confVars, verdictVars>>

SpecBuild == InitBuild /\ [][NextBuild]_vars

-----------------------------------------------------------------------------
(* Specification of the lists create_conf builds from the gates data,      *)
(* on gates data with up to MaxConfRows rows                               *)
InitConf ==
    /\ cf_rows \in UNION {[1..n -> [gate : ConfGateNames, qubits : QubitCells]] :
                             n \in 0..MaxConfRows}
    /\ cf_lists = [basis_gates |-> <<>>, coupling_map_1 |-> <<>>, coupling_map_2 |-> <<>>]
    /\ cf_pc = "input"
    /\ HeavyIdle
    /\ ThIdle
    /\ UtilIdle
    /\ BuildIdle
    /\ QvIdle
    /\ VerdictIdle

(* create_conf: basis_gates, coupling_map_1 and coupling_map_2 *)
conf_lists ==
    /\ cf_pc = "input"
    /\ cf_lists' = [basis_gates |-> conf_basis_gates(cf_rows),
                    coupling_map_1 |-> conf_coupling_map(cf_rows, 1),
                    coupling_map_2 |-> conf_coupling_map(cf_rows, 2)]
    /\ cf_pc' = "done"
    /\ UNCHANGED <<cf_rows, heavyVars, thVars, utilVars, buildVars, qvVars, verdictVars>>

NextConf == conf_lists

SpecConf == InitConf /\ [][NextConf]_vars

-----------------------------------------------------------------------------
(* Specification of a sweep test_qv_for_depths(backend, depths,            *)
(* n_circuits, n_shots, ...) with the test_qv calls it makes               *)
InitQV ==
    /\ sw_args \in [depths : UNION {[1..n -> DepthValues] : n \in 0..MaxDepths},
                    n_circuits : 1..MaxQvCircuits,
                    n_shots : 1..MaxQvShots]
    /\ sw_k = 0
    /\ sw_table = <<>>
    /\ sw_files = [dirs |-> FALSE, summary_writes |-> 0]
    /\ sw_pc = "start"
    /\ qv = qv_frame(1, 1, 1)
    /\ qv_pc = "idle"
    /\ qv_result = [type |-> "none", items |-> <<>>]
    /\ qv_log = <<>>
    /\ HeavyIdle
    /\ ThIdle
    /\ UtilIdle
    /\ BuildIdle
    /\ ConfIdle
    /\ VerdictIdle

NextQV ==
    \/ sweep_start /\ UNCHANGED <<heavyVars, thVars, utilVars, buildVars, confVars, verdictVars>>
    \/ sweep_call_test_qv /\ UNCHANGED <<heavyVars, thVars, utilVars, buildVars, confVars, verdictVars>>
    \/ qv_run_circuit /\ UNCHANGED <<heavyVars, thVars, utilVars, buildVars, confVars, verdictVars>>
    \/ qv_record_circuit /\ UNCHANGED <<heavyVars, thVars, utilVars, buildVars, confVars, verdictVars>>
    \/ qv_return /\ UNCHANGED <<heavyVars, thVars, utilVars, buildVars, confVars, verdictVars>>
    \/ sweep_append /\ UNCHANGED <<heavyVars, thVars, utilVars, buildVars, confVars, verdictVars>>
    \/ sweep_summary /\ UNCHANGED <<heavyVars, thVars, utilVars, buildVars, confVars, verdictVars>>

SpecQV == InitQV /\ [][NextQV]_vars

-----------------------------------------------------------------------------
(* Specification of the two pass verdicts of one run of test_qv: the one   *)
(* test_qv computes from cum_HOP[-1] and cum_2sigma[-1], which depend on   *)
(* the run only through sum(n_heavies), n_circuits and n_shots, and        *)
(* check_threshold on the same three numbers                               *)
InitVerdict ==
    /\ \E c \in 1..MaxVerdictCircuits, s \in 1..MaxVerdictShots :
         \E h \in 0..(c * s) :
            vd_args = [n_heavies |-> h, n_circuits |-> c, n_shots |-> s]
    /\ vd_cum_HOP = FZero
    /\ vd_cum_2sigma = FZero
    /\ vd_is_pass = FALSE
    /\ vd_numerator = FZero
    /\ vd_threshold = FALSE
    /\ vd_pc = "input"
    /\ HeavyIdle
    /\ ThIdle
    /\ UtilIdle
    /\ BuildIdle
    /\ QvIdle
    /\ ConfIdle

(* test_qv for the last circuit: cum_HOP[i] = sum(n_heavies[0:i+1]) /      *)
(* n_shots / (i+1) * 100                                                   *)
qv_cum_HOP ==
    /\ vd_pc = "input"
    /\ vd_cum_HOP' = cum_HOP_f64(vd_args.n_heavies, vd_args.n_circuits, vd_args.n_shots)
    /\ vd_pc' = "cum_HOP"
    /\ UNCHANGED <<vd_args, vd_cum_2sigma, vd_is_pass, vd_numerator, vd_threshold>>

(* test_qv for the last circuit: cum_2sigma[i] = 2 * sqrt(cum_HOP[i] *     *)
(* (100.0 - cum_HOP[i]) / (i+1))                                           *)
qv_cum_2sigma ==
    /\ vd_pc = "cum_HOP"
    /\ vd_cum_2sigma' = cum_2sigma_f64(vd_cum_HOP, vd_args.n_circuits)
    /\ vd_pc' = "cum_2sigma"
    /\ UNCHANGED <<vd_args, vd_cum_HOP, vd_is_pass, vd_numerator, vd_threshold>>

(* test_qv: is_pass = bool((cum_HOP[-1]-cum_2sigma[-1]) > (100*2/3)) *)
qv_is_pass ==
    /\ vd_pc = "cum_2sigma"
    /\ vd_is_pass' = is_pass_f64(vd_cum_HOP, vd_cum_2sigma)
    /\ vd_pc' = "is_pass"
    /\ UNCHANGED <<vd_args, vd_cum_HOP, vd_cum_2sigma, vd_numerator, vd_threshold>>

(* check_threshold on the heavy counts of the same run: numerator *)
th_numerator ==
    /\ vd_pc = "is_pass"
    /\ vd_numerator' = numerator_f64(vd_args.n_heavies, vd_args.n_circuits, vd_args.n_shots)
    /\ vd_pc' = "numerator"
    /\ UNCHANGED <<vd_args, vd_cum_HOP, vd_cum_2sigma, vd_is_pass, vd_threshold>>

(* check_threshold: the returned bool *)
th_return ==
    /\ vd_pc = "numerator"
    /\ vd_threshold' = check_threshold_f64(vd_numerator, vd_args.n_circuits, vd_args.n_shots)
    /\ vd_pc' = "done"
    /\ UNCHANGED <<vd_args, vd_cum_HOP, vd_cum_2sigma, vd_is_pass, vd_numerator>>

NextVerdict ==
    \/ qv_cum_HOP /\ UNCHANGED <<heavyVars, thVars, utilVars, buildVars, qvVars, confVars>>
    \/ qv_cum_2sigma /\ UNCHANGED <<heavyVars, thVars, utilVars, buildVars, qvVars, confVars>>
    \/ qv_is_pass /\ UNCHANGED <<heavyVars, thVars, utilVars, buildVars, qvVars, confVars>>
    \/ th_numerator /\ UNCHANGED <<heavyVars, thVars, utilVars, buildVars, qvVars, confVars>>
    \/ th_return /\ UNCHANGED <<heavyVars, thVars, utilVars, buildVars, qvVars, confVars>>

SpecVerdict == InitVerdict /\ [][NextVerdict]_vars

-----------------------------------------------------------------------------
(* Properties of get_heavy_outputs *)
CountOf(key) == DictGet(counts, key)

TwiceMedian(d) ==
    LET s == SortedByValue(DictKeys(d), d)
        n == Len(s)
    IN  IF n % 2 = 1 THEN 2 * DictGet(d, s[(n + 1) \div 2])
        ELSE DictGet(d, s[n \div 2]) + DictGet(d, s[(n \div 2) + 1])

(* C2: an outcome is returned by get_heavy_outputs if and only if its      *)
(* probability is strictly greater than the median probability of the      *)
(* dict, also for an odd number of outcomes and for equal probabilities.   *)
C2_StrictlyAboveMedian ==
    heavy_pc = "done" =>
        \A i \in 1..Len(counts) :
            (counts[i].k \in Range(heavy_outputs)) <=> (2 * counts[i].v > TwiceMedian(counts))

-----------------------------------------------------------------------------
(* Properties of check_threshold *)
HeavyOutputProbability == RDiv(Rat(th_args.n_heavies), Rat(th_args.n_circuits * th_args.n_shots))

(* p - 2*sqrt(p*(1-p)/n_circuits) > 2/3 *)
ClosedFormPasses ==
    LET p == HeavyOutputProbability
        variance == RDiv(RMul(p, RSub(Rat(1), p)), Rat(th_args.n_circuits))
    IN  SurdGT(Surd(p, Rat(-2), variance), <<2, 3>>)

(* C3: check_threshold returns True exactly when                           *)
(* p - 2*sqrt(p*(1-p)/n_circuits) > 2/3 with p = n_heavies/(n_circuits*    *)
(* n_shots), and the argument of its square root is never negative.        *)
C3_MatchesClosedForm ==
    th_pc = "done" =>
        /\ th_result = ClosedFormPasses
        /\ RLeq(Rat(0), th_sqrt_arg)

C3_Witness ==
    /\ th_pc = "done"
    /\ ~th_result
    /\ th_args.n_circuits > 1
    /\ RLess(<<2, 3>>, HeavyOutputProbability)
    /\ RLess(Rat(0), th_sqrt_arg)

(* C4: whenever check_threshold returns True the heavy-output probability  *)
(* n_heavies/(n_circuits*n_shots) is strictly greater than 2/3.            *)
C4_PassImpliesAboveTwoThirds ==
    (th_pc = "done" /\ th_result) => RLess(<<2, 3>>, HeavyOutputProbability)

C4_Witness ==
    /\ th_pc = "done"
    /\ th_result
    /\ th_args.n_heavies < th_args.n_circuits * th_args.n_shots

-----------------------------------------------------------------------------
(* Properties of utils.py *)
Occurrences(s, e) == Cardinality({i \in 1..Len(s) : s[i] = e})

LexLess(a, b) == a[1] < b[1] \/ (a[1] = b[1] /\ a[2] < b[2])

(* C7: finite_connected_map(n_qubits, radius) holds [i, j] exactly once    *)
(* for each ordered pair of distinct qubits at distance <= radius and      *)
(* nothing else, ordered by i and then j; so it has no self-pairs, is      *)
(* symmetric, and for radius >= n_qubits - 1 it is the fully connected     *)
(* map of HuayiBackend_build.create_conf.                                  *)
C7_FiniteConnectedMap ==
    fcm_pc = "done" =>
        LET n == fcm_args.n_qubits
            r == fcm_args.radius
            Q == 0..(n - 1)
        IN  /\ \A i, j \in Q :
                  Occurrences(fcm_result, <<i, j>>) =
                      IF i # j /\ Abs(i - j) <= r THEN 1 ELSE 0
            /\ Range(fcm_result) \subseteq Q \X Q
            /\ \A a, b \in 1..Len(fcm_result) :
                  a < b => LexLess(fcm_result[a], fcm_result[b])
            /\ \A e \in Range(fcm_result) :
                  e[1] # e[2] /\ <<e[2], e[1]>> \in Range(fcm_result)
            /\ r >= n - 1 => fcm_result = fully_connected_map(n)

C7_Witness ==
    /\ fcm_pc = "done"
    /\ fcm_args.n_qubits = 4
    /\ fcm_args.radius = 2
    /\ Len(fcm_result) = 10

NoDuplicates(s) == \A i, j \in 1..Len(s) : s[i] = s[j] => i = j

(* C8: common_basis_gates returns [id, rx, ry, cz, reset] for "rxrxcz",    *)
(* [id, r, rz, rzz, reset] for "rrzrzz", and for every other name prints   *)
(* a not-found message and returns the empty list; a non-empty result      *)
(* starts with "id", ends with "reset" and has no duplicates.              *)
C8_CommonBasisGates ==
    cbg_pc = "done" =>
        /\ cbg_name = "rxrxcz" => cbg_result = <<"id", "rx", "ry", "cz", "reset">>
        /\ cbg_name = "rrzrzz" => cbg_result = <<"id", "r", "rz", "rzz", "reset">>
        /\ cbg_name \notin {"rxrxcz", "rrzrzz"} =>
              cbg_result = <<>> /\ Len(cbg_printed) = 1
        /\ cbg_name \in {"rxrxcz", "rrzrzz"} => cbg_printed = <<>>
        /\ cbg_result # <<>> =>
              /\ Head(cbg_result) = "id"
              /\ cbg_result[Len(cbg_result)] = "reset"
              /\ NoDuplicates(cbg_result)

C8_Witness ==
    /\ cbg_pc = "done"
    /\ cbg_name = "rrzrzz"
    /\ Len(cbg_result) = 5

-----------------------------------------------------------------------------
(* Properties of build_from_file *)
StepInvoked(step) == step \in Range(b_calls)

SomeIOFailure == \E i \in 1..Len(b_faults) : b_faults[i] # "none"

(* C5: a file I/O failure inside create_init_file, create_props or         *)
(* create_conf is caught inside that step, which returns False, and the    *)
(* constructor continues and finishes without any exception leaving it,    *)
(* in particular when create_props fails reading the qubits data and       *)
(* create_conf runs afterwards.  (Gates data naming a non-standard gate    *)
(* is a different error and is left out here.)                             *)
C5_IOFailureContained ==
    /\ \A i \in 1..Len(b_faults) : b_faults[i] # "none" => ~b_returns[i]
    /\ (SomeIOFailure /\ conf_missing_gate(gates_data) = "") => b_exc = "none"

(* C6: when the gates data names a gate that is absent from the standard   *)
(* gate table, create_conf prints that the gate is not in the standard     *)
(* gates library, returns False and writes no conf file; no exception      *)
(* leaves create_conf.                                                     *)
C6_MissingGateReported ==
    ( /\ StepInvoked("create_conf")
      /\ conf_missing_gate(gates_data) # ""
      /\ attrs.n_qubits # <<>>
      /\ (Len(b_faults) = 3 => b_faults[3] # "read_gates") )
    =>
    ( /\ b_exc = "none"
      /\ Len(b_returns) = 3
      /\ ~b_returns[3]
      /\ "is not in the qiskit standard gates library" \in Range(b_printed)
      /\ fs.conf = <<>> )

-----------------------------------------------------------------------------
(* Properties of test_qv and test_qv_for_depths *)
RowOf(results) ==
    [backend |-> results.backend, n_qubits |-> results.n_qubits, QV |-> results.QV,
     HOP |-> results.HOP, sigma2 |-> results.sigma2, success |-> results.success,
     n_circuits |-> results.n_circuits, n_shots |-> results.n_shots]

(* C9: test_qv_for_depths returns a table with exactly one row per entry   *)
(* of depths, in the order of depths, row k holding the backend, n_qubits  *)
(* = depths[k], QV = 2^depths[k], HOP, 2sigma, success, n_circuits and     *)
(* n_shots that test_qv produced for that depth; the device summary.csv    *)
(* is written once, after the runs for all depths have finished.           *)
C9_SweepTable ==
    /\ sw_pc # "raised"
    /\ sw_pc = "done" =>
          /\ Len(sw_table) = Len(sw_args.depths)
          /\ Len(qv_log) = Len(sw_args.depths)
          /\ \A k \in 1..Len(sw_table) :
                /\ sw_table[k] = RowOf(qv_log[k])
                /\ sw_table[k].n_qubits = sw_args.depths[k]
                /\ sw_table[k].QV = Pow2(sw_args.depths[k])
          /\ sw_files.summary_writes = 1
    /\ sw_pc # "done" => sw_files.summary_writes = 0

HeaviesUpTo(i) == SumSeq(SubSeq(qv.n_heavies, 1, i))

-----------------------------------------------------------------------------
(* Properties of the constructor of build_from_file, continued *)
StepOrder == <<"create_init_file", "create_props", "create_conf">>

ImportHintPrinted == "New backends created" \in Range(b_printed)

(* C11: build_from_file invokes create_init_file, create_props and         *)
(* create_conf in this order, each of them whether or not an earlier one   *)
(* returned False, and prints the "New backends created" import hint if    *)
(* and only if all three steps returned True.                              *)
C11_StepsInOrder ==
    /\ b_calls = SubSeq(StepOrder, 1, Len(b_calls))
    /\ b_pc = "props" => Len(b_calls) = 1
    /\ b_pc = "conf" => Len(b_calls) = 2
    /\ b_pc \in {"all", "done", "raised"} => b_calls = StepOrder
    /\ b_pc = "done" =>
          (ImportHintPrinted <=>
              (Len(b_returns) = 3 /\ b_returns[1] /\ b_returns[2] /\ b_returns[3]))
    /\ b_pc # "done" => ~ImportHintPrinted

C11_Witness ==
    /\ b_pc = "done"
    /\ b_returns = <<FALSE, TRUE, TRUE>>
    /\ b_calls = StepOrder
    /\ ~ImportHintPrinted

(* C12: a failed step undoes nothing: once create_init_file returned True  *)
(* the backend directory, its __init__.py, its module and the import line  *)
(* of the root __init__.py stay as it wrote them when create_props or      *)
(* create_conf returns False, and a props file written by create_props     *)
(* stays when create_conf fails.                                           *)
C12_FailedStepUndoesNothing ==
    /\ (Len(b_returns) >= 1 /\ b_returns[1]) =>
          /\ fs.dir
          /\ fs.init_py = "written"
          /\ fs.module_py = "written"
          /\ fs.root_import
    /\ (Len(b_returns) >= 2 /\ b_returns[2]) =>
          fs.props = <<[n_qubits |-> attrs.n_qubits[1], n_gates |-> Len(gates_data)]>>

C12_Witness ==
    /\ b_pc = "done"
    /\ b_returns = <<TRUE, TRUE, FALSE>>
    /\ fs.props # <<>>
    /\ fs.conf = <<>>
    /\ fs.init_py = "written"

-----------------------------------------------------------------------------
(* Properties of the lists create_conf builds *)
FirstRow(rows, field, value) ==
    CHOOSE i \in 1..Len(rows) :
        /\ rows[i][field] = value
        /\ \A j \in 1..(i - 1) : rows[j][field] # value

GateNamesOf(rows) == {rows[i].gate : i \in 1..Len(rows)}

(* C13: basis_gates holds every distinct gate name of the gates data once, *)
(* in order of first appearance, followed by "id" and then "reset", each   *)
(* only if not already present; so it always contains "id" and "reset"     *)
(* and has no duplicates.                                                  *)
C13_BasisGates ==
    cf_pc = "done" =>
        LET bg == cf_lists.basis_gates
            names == GateNamesOf(cf_rows)
            n == Cardinality(names)
            tail == (IF "id" \in names THEN <<>> ELSE <<"id">>)
                    \o (IF "reset" \in names THEN <<>> ELSE <<"reset">>)
        IN  /\ Len(bg) = n + Len(tail)
            /\ {bg[i] : i \in 1..n} = names
            /\ \A i, j \in 1..n :
                  i < j => FirstRow(cf_rows, "gate", bg[i]) < FirstRow(cf_rows, "gate", bg[j])
            /\ SubSeq(bg, n + 1, Len(bg)) = tail
            /\ "id" \in Range(bg)
            /\ "reset" \in Range(bg)
            /\ NoDuplicates(bg)

C13_Witness ==
    /\ cf_pc = "done"
    /\ Len(cf_rows) = 3
    /\ cf_rows[1].gate = "cz"
    /\ cf_rows[2].gate = "reset"
    /\ cf_rows[3].gate = "cz"
    /\ cf_lists.basis_gates = <<"cz", "reset", "id">>

ParsedQubits(rows) == [i \in 1..Len(rows) |-> json_loads(rows[i].qubits)]

FirstParsed(rows, q) ==
    CHOOSE i \in 1..Len(rows) :
        /\ ParsedQubits(rows)[i] = q
        /\ \A j \in 1..(i - 1) : ParsedQubits(rows)[j] # q

SingleQubitMaps(conf) ==
    {conf.gates[i].coupling_map : i \in {k \in 1..Len(conf.gates) :
                                            StandardGates[conf.gates[k].name] = 1}}

(* C14: the coupling_map of the written configuration consists of exactly  *)
(* the qubit lists of length 2 of the gates data, each distinct qubit pair *)
(* once and in order of first appearance; lists of length 1 go only to the *)
(* single-qubit gates' coupling map, lists of another length to no map, so *)
(* every entry of the backend coupling_map is a pair of qubits.            *)
C14_CouplingMap ==
    fs.conf # <<>> =>
        LET cm == fs.conf[1].coupling_map
            parsed == ParsedQubits(gates_data)
            pairs == {parsed[i] : i \in {k \in 1..Len(parsed) : Len(parsed[k]) = 2}}
        IN  /\ Range(cm) = pairs
            /\ NoDuplicates(cm)
            /\ \A i, j \in 1..Len(cm) :
                  i < j => FirstParsed(gates_data, cm[i]) < FirstParsed(gates_data, cm[j])
            /\ \A i \in 1..Len(cm) : Len(cm[i]) = 2
            /\ \A m \in SingleQubitMaps(fs.conf[1]) :
                  /\ \A i \in 1..Len(m) : Len(m[i]) = 1
                  /\ Range(m) = {parsed[i] : i \in {k \in 1..Len(parsed) : Len(parsed[k]) = 1}}

-----------------------------------------------------------------------------
(* Properties of the loop of test_qv, continued *)
RECURSIVE SumOver(_, _)
SumOver(d, keys) ==
    IF keys = {} THEN 0
    ELSE LET key == CHOOSE x \in keys : TRUE
         IN  DictGet(d, key) + SumOver(d, keys \ {key})

InTestQv == qv_pc \in {"loop", "counted"}

(* C16: when the counts of each circuit sum to n_shots, the step that      *)
(* records circuit i sets n_heavies[i] to the sum of the counts of exactly *)
(* the measured outputs among the circuit's ideal heavy outputs, with      *)
(* 0 <= n_heavies[i] <= n_shots, the per-circuit HOP in [0, 1],            *)
(* 0 <= cum_HOP[i] <= 100 and a non-negative argument of the square root   *)
(* of cum_2sigma[i]; no step of test_qv changes the entries of n_heavies,  *)
(* cum_HOP and cum_2sigma of the circuits processed before it.             *)
C16_PerCircuitStatistics ==
    [][ /\ (qv_pc = "counted" /\ qv_pc' = "loop"
               /\ SumSeq([k \in 1..Len(qv.real_counts) |-> qv.real_counts[k].v]) = qv.n_shots) =>
              LET i == qv'.i
                  measured == Range(DictKeys(qv.real_counts))
              IN  /\ i = qv.i + 1
                  /\ qv'.n_heavies[i] =
                        SumOver(qv.real_counts, measured \cap Range(qv.ideal_heavy_outputs))
                  /\ 0 <= qv'.n_heavies[i]
                  /\ qv'.n_heavies[i] <= qv.n_shots
                  /\ qv'.circ_HOP = <<Norm(qv'.n_heavies[i], qv.n_shots)>>
                  /\ RLeq(Rat(0), qv'.circ_HOP[1])
                  /\ RLeq(qv'.circ_HOP[1], Rat(1))
                  /\ RLeq(Rat(0), qv'.cum_HOP[i])
                  /\ RLeq(qv'.cum_HOP[i], Rat(100))
                  /\ RLeq(Rat(0), qv'.cum_2sigma[i].r)
        /\ (InTestQv /\ qv_pc' \in {"loop", "counted", "returned"}) =>
              \A j \in 1..qv.i :
                  /\ qv'.n_heavies[j] = qv.n_heavies[j]
                  /\ qv'.cum_HOP[j] = qv.cum_HOP[j]
                  /\ qv'.cum_2sigma[j] = qv.cum_2sigma[j] ]_vars

C16_Witness ==
    /\ qv_pc = "loop"
    /\ qv.n_shots = 2
    /\ qv.i = 2
    /\ qv.n_heavies = <<1, 2>>
    /\ qv.circ_HOP = <<Rat(1)>>
    /\ qv.cum_HOP = <<Rat(50), Rat(75)>>

-----------------------------------------------------------------------------
(* Properties of the pass verdicts *)

(* C15: for every run with n_circuits >= 1 and n_shots >= 1 the success    *)
(* flag of test_qv equals check_threshold(H, n_circuits, n_shots), H being *)
(* the sum of n_heavies over all circuits of the run.                      *)
C15_VerdictsAgree ==
    (vd_pc = "done" /\ vd_args.n_circuits >= 1 /\ vd_args.n_shots >= 1) =>
        (vd_is_pass <=> vd_threshold)

====
